---- MODULE Spec2Model ----
(***************************************************************************)
(* Model of the appointment-scheduling backend (src/backend/server.js) and *)
(* of the clients' socket handlers: the booking commit POST /appointments  *)
(* as a transaction whose statements interleave with other requests, the   *)
(* organizer update PUT /appointments/:id, GET /slots, the availability    *)
(* endpoints (recurring rules and exceptions), and the realtime lock_slot  *)
(* handler that broadcasts slot_locked.                                    *)
(*                                                                         *)
(* Timestamps are stored and compared as TEXT (schema, server.js:804-805;  *)
(* conflictQuery, server.js:563).  A timestamp is modelled as the instant  *)
(* it denotes (milliseconds after 2023-10-10T10:00:00Z) together with the  *)
(* format it is written in: "iso" is Date.prototype.toISOString's          *)
(* "...:SS.000Z", "z" is the seed data's "...:SSZ".                        *)
(***************************************************************************)
EXTENDS Integers, Sequences, FiniteSets, Bags, TLC

\* ------------------------------------------------------------------ bounds
\* concurrent POST /appointments requests
MaxReq == 2
\* PUT /appointments/:id requests served
MaxPuts == 1
\* lock_slot messages handled
MaxLocks == 2
\* clock ticks
MaxTicks == 2
\* requests to the availability endpoints served
MaxChanges == 2
\* POST /auth/password-reset-request requests served
MaxResets == 2
\* GET /appointments requests of the dashboard
MaxFetches == 2

\* ------------------------------------------------------- program constants
MsPerMinute == 60000
LockTTL == 30000
MsPerHour == 3600000

\* milliseconds between two observations of Date.now()
TickMs == 15 * 1000

NULL == [t |-> -1, f |-> "null"]
Invalid == [t |-> -2, f |-> "invalid"]

Ts(t, f) == [t |-> t, f |-> f]

\* new Date(s).getTime(): the instant a timestamp string denotes
getTime(s) == s.t

\* new Date(ms).toISOString(): always the millisecond form
toISOString(ms) == [t |-> ms, f |-> "iso"]

\* rank of the 20th character of the string: '.' sorts before 'Z'
FormatRank(f) == IF f = "iso" THEN 0 ELSE 1

\* a <= b on TEXT: the first 19 characters order by instant, then the format
TextLeq(a, b) == a.t < b.t \/ (a.t = b.t /\ FormatRank(a.f) <= FormatRank(b.f))

\* ------------------------------------------------------------- seed data
Users == {"user1", "user2"}

username == [u \in Users |-> IF u = "user1" THEN "alice" ELSE "bob"]

SeedMeetingTypes ==
  { [id |-> "mt1", user_id |-> "user1", duration |-> 30],
    [id |-> "mt2", user_id |-> "user1", duration |-> 15],
    [id |-> "mt3", user_id |-> "user2", duration |-> 60] }

SeedAppointments ==
  { [id |-> <<"seed", 1>>, organizer_id |-> "user1", meeting_type_id |-> "mt1",
     slot_start |-> Ts(0, "z"), slot_end |-> Ts(30 * MsPerMinute, "z"),
     status |-> "booked"] }

\* a TEXT time of day 'HH:MM', as minutes after midnight
HHMM(h, m) == h * 60 + m

\* a NULL time of day
NoTime == 0 - 1

\* the calendar date the clock starts in, and a missing date
Today == "2023-10-10"
NoDate == "null"

SeedRecurring ==
  { [id |-> <<"avail", 1>>, user_id |-> "user1", day_of_week |-> 1,
     start_time |-> HHMM(9, 0), end_time |-> HHMM(17, 0),
     buffer_before |-> 15, buffer_after |-> 15, meeting_duration |-> 30],
    [id |-> <<"avail", 2>>, user_id |-> "user1", day_of_week |-> 3,
     start_time |-> HHMM(10, 0), end_time |-> HHMM(18, 0),
     buffer_before |-> 10, buffer_after |-> 10, meeting_duration |-> 30],
    [id |-> <<"avail", 3>>, user_id |-> "user2", day_of_week |-> 2,
     start_time |-> HHMM(8, 0), end_time |-> HHMM(16, 0),
     buffer_before |-> 15, buffer_after |-> 15, meeting_duration |-> 60] }

SeedExceptions ==
  { [id |-> <<"availexc", 1>>, user_id |-> "user1", exception_date |-> "2023-10-31",
     start_time |-> NoTime, end_time |-> NoTime],
    [id |-> <<"availexc", 2>>, user_id |-> "user2", exception_date |-> "2023-11-01",
     start_time |-> HHMM(10, 0), end_time |-> HHMM(14, 0)] }

\* ------------------------------------------------------------------ inputs
Requests == 1 .. MaxReq

\* req.body of POST /appointments: a slot on seed appt1's interval, one that
\* touches its end (in either format), one of another organizer, an unknown
\* meeting type, an unparsable slot_start
\* (slot_end and organizer_id are fields the handler does not read)
BodyInputs ==
  { [meeting_type_id |-> "mt1", slot_start |-> Ts(0, "iso"),
     slot_end |-> NULL, organizer_id |-> "none"],
    [meeting_type_id |-> "mt1", slot_start |-> Ts(30 * MsPerMinute, "iso"),
     slot_end |-> NULL, organizer_id |-> "none"],
    [meeting_type_id |-> "mt1", slot_start |-> Ts(30 * MsPerMinute, "z"),
     slot_end |-> NULL, organizer_id |-> "none"],
    [meeting_type_id |-> "mt3", slot_start |-> Ts(0, "iso"),
     slot_end |-> NULL, organizer_id |-> "none"],
    [meeting_type_id |-> "mt_unknown", slot_start |-> Ts(0, "iso"),
     slot_end |-> NULL, organizer_id |-> "none"],
    [meeting_type_id |-> "mt1", slot_start |-> Invalid,
     slot_end |-> NULL, organizer_id |-> "none"] }

Clients == {"form1", "form2", "store"}

Forms == {"form1", "form2"}

\* what a booking form was opened with: /:username?slot_start=..&slot_end=..
Selections ==
  { [organizer_id |-> "alice", slot_start |-> Ts(0, "iso"),
     slot_end |-> Ts(30 * MsPerMinute, "iso")],
    [organizer_id |-> "alice", slot_start |-> Ts(15 * MsPerMinute, "iso"),
     slot_end |-> Ts(45 * MsPerMinute, "iso")],
    [organizer_id |-> "alice", slot_start |-> Ts(30 * MsPerMinute, "iso"),
     slot_end |-> Ts(60 * MsPerMinute, "iso")],
    [organizer_id |-> "bob", slot_start |-> Ts(0, "iso"),
     slot_end |-> Ts(30 * MsPerMinute, "iso")] }

NoSelection == [organizer_id |-> "none", slot_start |-> NULL, slot_end |-> NULL]

\* INSERT INTO users: the seeded password_hash values are not bcrypt hashes
SeedUsers ==
  { [id |-> "user1", email |-> "alice@simplecal.com", password_hash |-> "hashedpassword1"],
    [id |-> "user2", email |-> "bob@simplecal.com", password_hash |-> "hashedpassword2"] }

\* INSERT INTO password_reset_requests: expires_at '2023-10-05T11:00:00Z',
\* 119 hours before the instant 0
SeedResetRequests ==
  { [id |-> "reset1", user_id |-> "user1", reset_token |-> "token123",
     expires_at |-> [t |-> 0 - 119 * MsPerHour, f |-> "z"]] }

\* req.body.email of the /auth endpoints
Emails == {"alice@simplecal.com", "bob@simplecal.com", "nobody@simplecal.com"}

\* req.body.password and new_password; NoPassword for an absent field
Passwords == {"pw1", "pw2"}
NoPassword == "undefined"

\* bcrypt.hash(password, 10)
hash(password) == "bcrypt:" \o password

\* bcrypt.compare(password, password_hash)
compare(password, password_hash) == password_hash = hash(password)

\* jwt.sign({ id: user.id, email: user.email }, ...)
sign(user) == "jwt:" \o user.id

\* auth_state.user = {}
NoUser == [id |-> "undefined", email |-> "undefined"]

\* initialState of auth_slice, and the state clear_auth leaves
initialState == [is_authenticated |-> FALSE, auth_token |-> "", user |-> NoUser]

VARIABLES
  appointments,   \* committed rows of table appointments
  puts,           \* PUT /appointments/:id requests served
  putRes,         \* status of the last PUT response (0: none yet)
  pc,             \* per POST request: the statement the handler awaits
  body,           \* per POST request: req.body
  local,          \* per POST request: organizer_id and slot_end
  res,            \* per POST request: the response status sent (0: none yet)
  tx,             \* per POST request: "none", "open", "committed", "rolledback"
  released,       \* per POST request: calls of client.release()
  emitted,        \* io.emit calls: the bag of payloads sent
  connected,      \* sockets the server holds
  lockMsgs,       \* lock_slot messages sent and not yet handled
  locks,          \* lock_slot messages handled
  inbox,          \* per client: events delivered and not yet dispatched
  formPc,         \* per booking form: "unmounted", "waiting", "disconnected"
  selectedSlot,   \* per booking form: username and selectedSlot
  isSlotLocked,   \* per booking form
  lockError,      \* per booking form: the message shown ("" for none)
  isSubmitting,   \* per booking form: the POST request it awaits (0: none)
  store,          \* realtime_event_state of the redux store
  slotsRes,       \* the last GET /slots request (organizer) and its response
  availability_recurring,   \* rows of table availability_recurring
  availability_exceptions,  \* rows of table availability_exceptions
  changes,        \* requests to the availability endpoints served
  availRes,       \* status of the last availability or meeting type response
  meeting_types,  \* rows of table meeting_types
  users,          \* rows of table users
  password_reset_requests,  \* rows of table password_reset_requests
  resets,         \* POST /auth/password-reset-request requests served
  authRes,        \* status of the last /auth response (0: none yet)
  auth_state,     \* auth_state of the redux store
  logoutPc,       \* GV_TopNav handleLogout: "idle" or "fetching"
  dashboard,      \* UV_OrganizerDashboard: mounted, its state and effect dependencies
  fetches,        \* GET /appointments requests and responses in flight
  fetchCount,     \* GET /appointments requests sent
  now             \* Date.now()

availVars == <<availability_recurring, availability_exceptions, changes, availRes,
               meeting_types>>
dbVars == <<appointments, puts, putRes, availVars>>
postVars == <<pc, body, local, res, tx, released>>
sockVars == <<connected, lockMsgs, locks, inbox, formPc, selectedSlot, isSlotLocked,
              lockError, isSubmitting, store>>
getVars == <<slotsRes>>
authVars == <<users, password_reset_requests, resets, authRes, auth_state, logoutPc>>
dashVars == <<dashboard, fetches, fetchCount>>
pageVars == <<authVars, dashVars>>

vars == <<dbVars, postVars, emitted, sockVars, getVars, pageVars, now>>

NoBody == [meeting_type_id |-> "none", slot_start |-> NULL,
           slot_end |-> NULL, organizer_id |-> "none"]
NoLocal == [organizer_id |-> "none", slot_end |-> NULL]
NoId == <<"none", 0>>

\* an io.emit call; "by" records the socket whose message caused it
Event(event, by, id, organizer_id, slot_start, slot_end, status, lock_expires_at) ==
  [event |-> event, by |-> by, id |-> id, organizer_id |-> organizer_id,
   slot_start |-> slot_start, slot_end |-> slot_end, status |-> status,
   lock_expires_at |-> lock_expires_at]

NoEvent == Event("none", "none", NoId, "none", NULL, NULL, "none", -1)

\* UV_OrganizerDashboard before it is mounted: useState([]), useState("upcoming")
Unmounted == [mounted |-> FALSE, appointments |-> <<>>, filter |-> "upcoming"]

\* socket.on(...) registrations of each client
Listens(c, event) ==
  IF c \in Forms THEN event \in {"slot_locked", "lock_failed"}
  ELSE event \in {"slot_locked", "appointment_created", "appointment_updated",
                  "availability_updated"}

\* io.emit(event, payload): to every connected socket
Broadcast(e) ==
  [c \in Clients |->
     IF c \in connected /\ Listens(c, e.event) THEN Append(inbox[c], e) ELSE inbox[c]]

Init ==
  /\ appointments = SeedAppointments
  /\ puts = 0
  /\ putRes = 0
  /\ pc = [r \in Requests |-> "idle"]
  /\ body = [r \in Requests |-> NoBody]
  /\ local = [r \in Requests |-> NoLocal]
  /\ res = [r \in Requests |-> 0]
  /\ tx = [r \in Requests |-> "none"]
  /\ released = [r \in Requests |-> 0]
  /\ emitted = EmptyBag
  /\ connected = {}
  /\ lockMsgs = {}
  /\ locks = 0
  /\ inbox = [c \in Clients |-> <<>>]
  /\ formPc = [c \in Forms |-> "unmounted"]
  /\ selectedSlot = [c \in Forms |-> NoSelection]
  /\ isSlotLocked = [c \in Forms |-> FALSE]
  /\ lockError = [c \in Forms |-> ""]
  /\ isSubmitting = [c \in Forms |-> 0]
  /\ store = [last_slot_locked |-> NoEvent, last_appointment_created |-> NoEvent,
              last_appointment_updated |-> NoEvent,
              last_availability_updated |-> NoEvent]
  /\ slotsRes = [organizer |-> "none", status |-> 0, slots |-> <<>>]
  /\ availability_recurring = SeedRecurring
  /\ availability_exceptions = SeedExceptions
  /\ changes = 0
  /\ availRes = 0
  /\ meeting_types = SeedMeetingTypes
  /\ users = SeedUsers
  /\ password_reset_requests = SeedResetRequests
  /\ resets = 0
  /\ authRes = 0
  /\ auth_state = initialState
  /\ logoutPc = "idle"
  /\ dashboard = Unmounted
  /\ fetches = {}
  /\ fetchCount = 0
  /\ now = 0

\* ------------------------------------------------ POST /appointments
\* pool.connect() and BEGIN, for a request with body b
Begin(r, b) ==
  /\ pc[r] = "idle"
  /\ \A q \in Requests : q < r => pc[q] # "idle"
  /\ body' = [body EXCEPT ![r] = b]
  /\ tx' = [tx EXCEPT ![r] = "open"]
  /\ pc' = [pc EXCEPT ![r] = "mtQuery"]
  /\ UNCHANGED <<local, res, released>>
  /\ UNCHANGED <<dbVars, emitted, sockVars, getVars, pageVars, now>>

\* POST /appointments with one of the curated bodies
PostBegin(r) == \E b \in BodyInputs : Begin(r, b)

\* the bodies a client can post after GET /slots: a slot offered with a
\* "Book Now" link and a meeting type of the organizer shown
SlotBodies ==
  { [meeting_type_id |-> m.id, slot_start |-> slotsRes.slots[i].start_time,
     slot_end |-> slotsRes.slots[i].end_time, organizer_id |-> "none"] :
      m \in { mt \in meeting_types : username[mt.user_id] = slotsRes.organizer },
      i \in { j \in DOMAIN slotsRes.slots : slotsRes.slots[j].available } }

\* req.body naming a slot_end and an organizer of the client's choosing: a
\* two hour slot of alice's 30 minute type claimed for bob, and a slot of
\* bob's 60 minute type with slot_end before slot_start, claimed for alice
ForgedBodies ==
  { [meeting_type_id |-> "mt1", slot_start |-> Ts(60 * MsPerMinute, "iso"),
     slot_end |-> Ts(180 * MsPerMinute, "iso"), organizer_id |-> "user2"],
    [meeting_type_id |-> "mt3", slot_start |-> Ts(60 * MsPerMinute, "iso"),
     slot_end |-> Ts(0, "iso"), organizer_id |-> "user1"] }

\* POST /appointments with a body that names slot_end and organizer_id
PostForged(r) == \E b \in ForgedBodies : Begin(r, b)

\* POST /appointments for a slot that GET /slots returned
BookSlot(r) == \E b \in SlotBodies : Begin(r, b)

\* the catch block: ROLLBACK, 500, then finally client.release()
Fail500(r) ==
  /\ tx' = [tx EXCEPT ![r] = "rolledback"]
  /\ res' = [res EXCEPT ![r] = 500]
  /\ released' = [released EXCEPT ![r] = @ + 1]
  /\ pc' = [pc EXCEPT ![r] = "done"]

\* PostMtQuery answering 400 without ROLLBACK
PostMtQuery_NoRollback(r) ==
  /\ pc[r] = "mtQuery"
  /\ LET mtRows == {m \in meeting_types : m.id = body[r].meeting_type_id}
     IN IF mtRows = {}
        THEN /\ res' = [res EXCEPT ![r] = 400]
             /\ released' = [released EXCEPT ![r] = @ + 1]
             /\ pc' = [pc EXCEPT ![r] = "done"]
             /\ UNCHANGED <<local, tx>>
        ELSE LET meeting_type == CHOOSE m \in mtRows : TRUE
             IN IF body[r].slot_start = Invalid
                THEN Fail500(r) /\ UNCHANGED local
                ELSE /\ local' = [local EXCEPT ![r] =
                           [organizer_id |-> meeting_type.user_id,
                            slot_end |-> toISOString(getTime(body[r].slot_start)
                                           + meeting_type.duration * MsPerMinute)]]
                     /\ pc' = [pc EXCEPT ![r] = "conflictQuery"]
                     /\ UNCHANGED <<tx, res, released>>
  /\ UNCHANGED body
  /\ UNCHANGED <<dbVars, emitted, sockVars, getVars, pageVars, now>>

\* SELECT * FROM meeting_types WHERE id = $1, then slot_end
PostMtQuery(r) ==
  /\ pc[r] = "mtQuery"
  /\ LET mtRows == {m \in meeting_types : m.id = body[r].meeting_type_id}
     IN IF mtRows = {}
        THEN /\ tx' = [tx EXCEPT ![r] = "rolledback"]
             /\ res' = [res EXCEPT ![r] = 400]
             /\ released' = [released EXCEPT ![r] = @ + 1]
             /\ pc' = [pc EXCEPT ![r] = "done"]
             /\ UNCHANGED local
        ELSE LET meeting_type == CHOOSE m \in mtRows : TRUE
             IN IF body[r].slot_start = Invalid
                THEN Fail500(r) /\ UNCHANGED local
                ELSE /\ local' = [local EXCEPT ![r] =
                           [organizer_id |-> meeting_type.user_id,
                            slot_end |-> toISOString(getTime(body[r].slot_start)
                                           + meeting_type.duration * MsPerMinute)]]
                     /\ pc' = [pc EXCEPT ![r] = "conflictQuery"]
                     /\ UNCHANGED <<tx, res, released>>
  /\ UNCHANGED body
  /\ UNCHANGED <<dbVars, emitted, sockVars, getVars, pageVars, now>>

\* a statement of the transaction rejects (the store is unreachable, the
\* INSERT violates a constraint): control passes to the catch block
PostError(r) ==
  /\ pc[r] \in {"mtQuery", "conflictQuery", "insert", "commit"}
  /\ Fail500(r)
  /\ UNCHANGED <<body, local>>
  /\ UNCHANGED <<dbVars, emitted, sockVars, getVars, pageVars, now>>

\* conflictRows matching only an equal slot_start
conflictRows_SameStart(organizer_id, slot_start, slot_end) ==
  { a \in appointments :
      /\ a.organizer_id = organizer_id
      /\ a.status = "booked"
      /\ a.slot_start = slot_start }

\* WHERE organizer_id = $1 AND status = 'booked'
\*   AND NOT ($3 <= slot_start OR $2 >= slot_end)
conflictRows(organizer_id, slot_start, slot_end) ==
  { a \in appointments :
      /\ a.organizer_id = organizer_id
      /\ a.status = "booked"
      /\ ~ (TextLeq(slot_end, a.slot_start) \/ TextLeq(a.slot_end, slot_start)) }

\* PostConflictQuery answering 409 without reaching client.release()
PostConflictQuery_KeepsClient(r) ==
  /\ pc[r] = "conflictQuery"
  /\ IF conflictRows(local[r].organizer_id, body[r].slot_start, local[r].slot_end) # {}
     THEN /\ tx' = [tx EXCEPT ![r] = "rolledback"]
          /\ res' = [res EXCEPT ![r] = 409]
          /\ pc' = [pc EXCEPT ![r] = "done"]
          /\ UNCHANGED released
     ELSE /\ pc' = [pc EXCEPT ![r] = "insert"]
          /\ UNCHANGED <<tx, res, released>>
  /\ UNCHANGED <<body, local>>
  /\ UNCHANGED <<dbVars, emitted, sockVars, getVars, pageVars, now>>

PostConflictQuery(r) ==
  /\ pc[r] = "conflictQuery"
  /\ IF conflictRows(local[r].organizer_id, body[r].slot_start, local[r].slot_end) # {}
     THEN /\ tx' = [tx EXCEPT ![r] = "rolledback"]
          /\ res' = [res EXCEPT ![r] = 409]
          /\ released' = [released EXCEPT ![r] = @ + 1]
          /\ pc' = [pc EXCEPT ![r] = "done"]
     ELSE /\ pc' = [pc EXCEPT ![r] = "insert"]
          /\ UNCHANGED <<tx, res, released>>
  /\ UNCHANGED <<body, local>>
  /\ UNCHANGED <<dbVars, emitted, sockVars, getVars, pageVars, now>>

\* NewRow taking slot_end and organizer_id from req.body when it names them
NewRow_TrustsClient(r) ==
  [id |-> <<"uuid", r>>,
   organizer_id |-> IF body[r].organizer_id = "none" THEN local[r].organizer_id
                    ELSE body[r].organizer_id,
   meeting_type_id |-> body[r].meeting_type_id,
   slot_start |-> body[r].slot_start,
   slot_end |-> IF body[r].slot_end = NULL THEN local[r].slot_end ELSE body[r].slot_end,
   status |-> "booked"]

\* the row of INSERT INTO appointments ... VALUES (..., 'booked', ...)
NewRow(r) ==
  [id |-> <<"uuid", r>>, organizer_id |-> local[r].organizer_id,
   meeting_type_id |-> body[r].meeting_type_id,
   slot_start |-> body[r].slot_start, slot_end |-> local[r].slot_end,
   status |-> "booked"]

\* the payload of io.emit('appointment_created', ...)
CreatedEvent(appointment) ==
  Event("appointment_created", "http", appointment.id, appointment.organizer_id,
        appointment.slot_start, appointment.slot_end, appointment.status, -1)

\* PostInsert announcing the row before COMMIT
PostInsert_EmitsBeforeCommit(r) ==
  /\ pc[r] = "insert"
  /\ pc' = [pc EXCEPT ![r] = "commit"]
  /\ emitted' = emitted (+) SetToBag({CreatedEvent(NewRow(r))})
  /\ inbox' = Broadcast(CreatedEvent(NewRow(r)))
  /\ UNCHANGED <<body, local, res, tx, released>>
  /\ UNCHANGED <<connected, lockMsgs, locks, formPc, selectedSlot, isSlotLocked, lockError, isSubmitting, store>>
  /\ UNCHANGED <<dbVars, getVars, pageVars, now>>

\* INSERT inside the open transaction: not yet visible to other connections
PostInsert(r) ==
  /\ pc[r] = "insert"
  /\ pc' = [pc EXCEPT ![r] = "commit"]
  /\ UNCHANGED <<body, local, res, tx, released>>
  /\ UNCHANGED <<dbVars, emitted, sockVars, getVars, pageVars, now>>

\* COMMIT: the inserted row becomes visible
PostCommit(r) ==
  /\ pc[r] = "commit"
  /\ appointments' = appointments \cup {NewRow(r)}
  /\ tx' = [tx EXCEPT ![r] = "committed"]
  /\ pc' = [pc EXCEPT ![r] = "emit"]
  /\ UNCHANGED <<body, local, res, released>>
  /\ UNCHANGED <<puts, putRes, availVars, emitted, sockVars, getVars, pageVars, now>>

\* io.emit('appointment_created', ...), res.status(201), client.release()
PostEmit(r) ==
  /\ pc[r] = "emit"
  /\ emitted' = emitted (+) SetToBag({CreatedEvent(NewRow(r))})
  /\ inbox' = Broadcast(CreatedEvent(NewRow(r)))
  /\ res' = [res EXCEPT ![r] = 201]
  /\ released' = [released EXCEPT ![r] = @ + 1]
  /\ pc' = [pc EXCEPT ![r] = "done"]
  /\ UNCHANGED <<body, local, tx>>
  /\ UNCHANGED <<connected, lockMsgs, locks, formPc, selectedSlot, isSlotLocked, lockError, isSubmitting, store>>
  /\ UNCHANGED <<dbVars, getVars, pageVars, now>>

\* ------------------------------------------------ PUT /appointments/:id
\* req.body of PUT /appointments/:id: cancel, book again, move to a new interval
PutInputs ==
  { [status |-> "canceled", slot_start |-> NULL, slot_end |-> NULL],
    [status |-> "booked", slot_start |-> NULL, slot_end |-> NULL],
    [status |-> "null", slot_start |-> Ts(0, "iso"),
     slot_end |-> Ts(30 * MsPerMinute, "iso")] }

COALESCE(a, b, null) == IF a = null THEN b ELSE a

\* PutAppointment matching the row by id alone
PutAppointment_AnyOwner(user, id, status, slot_start, slot_end) ==
  /\ puts < MaxPuts
  /\ puts' = puts + 1
  /\ LET rows == {a \in appointments : a.id = id}
     IN IF rows = {}
        THEN /\ putRes' = 404
             /\ UNCHANGED <<appointments, emitted, inbox>>
        ELSE LET old == CHOOSE a \in rows : TRUE
                 new == [old EXCEPT !.status = IF status = "null" THEN @ ELSE status,
                                    !.slot_start = IF slot_start = NULL THEN @ ELSE slot_start,
                                    !.slot_end = IF slot_end = NULL THEN @ ELSE slot_end]
                 payload == Event("appointment_updated", "http", new.id, "none",
                                  new.slot_start, new.slot_end, new.status, 0 - 1)
             IN /\ appointments' = (appointments \ {old}) \cup {new}
                /\ emitted' = emitted (+) SetToBag({payload})
                /\ inbox' = Broadcast(payload)
                /\ putRes' = 200
  /\ UNCHANGED <<connected, lockMsgs, locks, formPc, selectedSlot, isSlotLocked, lockError, isSubmitting, store>>
  /\ UNCHANGED <<postVars, availVars, getVars, pageVars, now>>

\* UPDATE appointments SET ... WHERE id = $5 AND organizer_id = $6 RETURNING *
UpdatedRow(a, status, slot_start, slot_end) ==
  [a EXCEPT !.status = COALESCE(status, a.status, "null"),
            !.slot_start = COALESCE(slot_start, a.slot_start, NULL),
            !.slot_end = COALESCE(slot_end, a.slot_end, NULL)]

UpdatedEvent(a) ==
  Event("appointment_updated", "http", a.id, "none", a.slot_start, a.slot_end,
        a.status, -1)

PutAppointment(user, id, status, slot_start, slot_end) ==
  /\ puts < MaxPuts
  /\ puts' = puts + 1
  /\ LET rows == {a \in appointments : a.id = id /\ a.organizer_id = user}
     IN IF rows = {}
        THEN /\ putRes' = 404
             /\ UNCHANGED <<appointments, emitted, inbox>>
        ELSE LET old == CHOOSE a \in rows : TRUE
                 updatedAppointment == UpdatedRow(old, status, slot_start, slot_end)
             IN /\ appointments' = (appointments \ {old}) \cup {updatedAppointment}
                /\ emitted' = emitted (+) SetToBag({UpdatedEvent(updatedAppointment)})
                /\ inbox' = Broadcast(UpdatedEvent(updatedAppointment))
                /\ putRes' = 200
  /\ UNCHANGED <<connected, lockMsgs, locks, formPc, selectedSlot, isSlotLocked, lockError, isSubmitting, store>>
  /\ UNCHANGED <<postVars, availVars, getVars, pageVars, now>>

\* ------------------------------------------------ GET /slots
OrganizerInputs == {"alice", "bob", "nobody", "missing"}

\* MockSlots listing the latest slot first
MockSlots_LatestFirst(t) ==
  << [start_time |-> toISOString(t + 10800000), end_time |-> toISOString(t + 12600000),
      available |-> FALSE],
     [start_time |-> toISOString(t + 7200000), end_time |-> toISOString(t + 9000000),
      available |-> TRUE],
     [start_time |-> toISOString(t + 3600000), end_time |-> toISOString(t + 5400000),
      available |-> TRUE] >>

\* the mock slot list, computed from Date.now()
MockSlots(t) ==
  << [start_time |-> toISOString(t + 3600000), end_time |-> toISOString(t + 5400000),
      available |-> TRUE],
     [start_time |-> toISOString(t + 7200000), end_time |-> toISOString(t + 9000000),
      available |-> TRUE],
     [start_time |-> toISOString(t + 10800000), end_time |-> toISOString(t + 12600000),
      available |-> FALSE] >>

\* GetSlots announcing the organizer's first slot as locked
GetSlots_LocksFirstSlot(organizer) ==
  /\ slotsRes' =
       IF organizer = "missing"
       THEN [organizer |-> organizer, status |-> 400, slots |-> <<>>]
       ELSE IF {u \in Users : username[u] = organizer} = {}
            THEN [organizer |-> organizer, status |-> 404, slots |-> <<>>]
            ELSE [organizer |-> organizer, status |-> 200, slots |-> MockSlots(now)]
  /\ IF {u \in Users : username[u] = organizer} = {}
     THEN UNCHANGED <<emitted, inbox>>
     ELSE LET payload == Event("slot_locked", "http", NoId, organizer,
                               MockSlots(now)[1].start_time, MockSlots(now)[1].end_time,
                               "none", now + LockTTL)
          IN /\ emitted' = emitted (+) SetToBag({payload})
             /\ inbox' = Broadcast(payload)
  /\ UNCHANGED <<connected, lockMsgs, locks, formPc, selectedSlot, isSlotLocked, lockError, isSubmitting, store>>
  /\ UNCHANGED <<dbVars, postVars, pageVars, now>>

\* app.get('/slots'): 400 without organizer, 404 for an unknown username,
\* else the mock list
GetSlots(organizer) ==
  /\ slotsRes' =
       IF organizer = "missing"
       THEN [organizer |-> organizer, status |-> 400, slots |-> <<>>]
       ELSE IF {u \in Users : username[u] = organizer} = {}
            THEN [organizer |-> organizer, status |-> 404, slots |-> <<>>]
            ELSE [organizer |-> organizer, status |-> 200, slots |-> MockSlots(now)]
  /\ UNCHANGED <<dbVars, postVars, emitted, sockVars, pageVars, now>>

\* ------------------------------------------------ availability endpoints
\* req.body of POST and PUT /availability/recurring: a Tuesday window, and a
\* body without end_time
RecurringInputs ==
  { [day_of_week |-> 2, start_time |-> HHMM(9, 0), end_time |-> HHMM(10, 0),
     buffer_before |-> 0, buffer_after |-> 0, meeting_duration |-> 30],
    [day_of_week |-> 2, start_time |-> HHMM(9, 0), end_time |-> NoTime,
     buffer_before |-> 0, buffer_after |-> 0, meeting_duration |-> 30] }

\* req.body of POST and PUT /availability/exceptions: today closed, today
\* with an override window, and a body without exception_date
ExceptionInputs ==
  { [exception_date |-> Today, start_time |-> NoTime, end_time |-> NoTime],
    [exception_date |-> Today, start_time |-> HHMM(12, 0), end_time |-> HHMM(13, 0)],
    [exception_date |-> NoDate, start_time |-> NoTime, end_time |-> NoTime] }

\* the payload of io.emit('availability_updated', ...)
AvailabilityEvent(user_id, type, updated_entry) ==
  [event |-> "availability_updated", by |-> "http", user_id |-> user_id,
   type |-> type, updated_entry |-> updated_entry]

\* start_time TEXT NOT NULL, end_time TEXT NOT NULL
RecurringNotNull(b) == b.start_time # NoTime /\ b.end_time # NoTime

\* exception_date TEXT NOT NULL
ExceptionNotNull(b) == b.exception_date # NoDate

RecurringRow(id, user, b) ==
  [id |-> id, user_id |-> user, day_of_week |-> b.day_of_week,
   start_time |-> b.start_time, end_time |-> b.end_time,
   buffer_before |-> b.buffer_before, buffer_after |-> b.buffer_after,
   meeting_duration |-> b.meeting_duration]

ExceptionRow(id, user, b) ==
  [id |-> id, user_id |-> user, exception_date |-> b.exception_date,
   start_time |-> b.start_time, end_time |-> b.end_time]

\* one more request served by an availability or meeting type endpoint
Served ==
  /\ changes < MaxChanges
  /\ changes' = changes + 1

\* app.post('/availability/recurring')
PostRecurring(user, b) ==
  /\ Served
  /\ IF ~ RecurringNotNull(b)
     THEN /\ availRes' = 500
          /\ UNCHANGED <<availability_recurring, emitted, inbox>>
     ELSE LET row == RecurringRow(<<"uuid", changes + 1>>, user, b)
          IN /\ availability_recurring' = availability_recurring \cup {row}
             /\ emitted' = emitted (+) SetToBag({AvailabilityEvent(user, "recurring", row)})
             /\ inbox' = Broadcast(AvailabilityEvent(user, "recurring", row))
             /\ availRes' = 201
  /\ UNCHANGED <<availability_exceptions, meeting_types, appointments, puts, putRes>>
  /\ UNCHANGED <<connected, lockMsgs, locks, formPc, selectedSlot, isSlotLocked, lockError, isSubmitting, store>>
  /\ UNCHANGED <<postVars, getVars, pageVars, now>>

\* app.put('/availability/recurring/:id')
PutRecurring(user, id, b) ==
  /\ Served
  /\ LET rows == {a \in availability_recurring : a.id = id /\ a.user_id = user}
     IN IF rows = {}
        THEN /\ availRes' = 404
             /\ UNCHANGED <<availability_recurring, emitted, inbox>>
        ELSE IF ~ RecurringNotNull(b)
             THEN /\ availRes' = 500
                  /\ UNCHANGED <<availability_recurring, emitted, inbox>>
             ELSE LET row == RecurringRow(id, user, b)
                  IN /\ availability_recurring' = (availability_recurring \ rows) \cup {row}
                     /\ emitted' = emitted (+) SetToBag({AvailabilityEvent(user, "recurring", row)})
                     /\ inbox' = Broadcast(AvailabilityEvent(user, "recurring", row))
                     /\ availRes' = 200
  /\ UNCHANGED <<availability_exceptions, meeting_types, appointments, puts, putRes>>
  /\ UNCHANGED <<connected, lockMsgs, locks, formPc, selectedSlot, isSlotLocked, lockError, isSubmitting, store>>
  /\ UNCHANGED <<postVars, getVars, pageVars, now>>

\* app.delete('/availability/recurring/:id'): 204, nothing is emitted
DeleteRecurring(user, id) ==
  /\ Served
  /\ availability_recurring' =
       { a \in availability_recurring : ~ (a.id = id /\ a.user_id = user) }
  /\ availRes' = 204
  /\ UNCHANGED <<availability_exceptions, meeting_types, appointments, puts, putRes>>
  /\ UNCHANGED <<postVars, emitted, sockVars, getVars, pageVars, now>>

\* app.post('/availability/exceptions')
PostException(user, b) ==
  /\ Served
  /\ IF ~ ExceptionNotNull(b)
     THEN /\ availRes' = 500
          /\ UNCHANGED <<availability_exceptions, emitted, inbox>>
     ELSE LET row == ExceptionRow(<<"uuid", changes + 1>>, user, b)
          IN /\ availability_exceptions' = availability_exceptions \cup {row}
             /\ emitted' = emitted (+) SetToBag({AvailabilityEvent(user, "exception", row)})
             /\ inbox' = Broadcast(AvailabilityEvent(user, "exception", row))
             /\ availRes' = 201
  /\ UNCHANGED <<availability_recurring, meeting_types, appointments, puts, putRes>>
  /\ UNCHANGED <<connected, lockMsgs, locks, formPc, selectedSlot, isSlotLocked, lockError, isSubmitting, store>>
  /\ UNCHANGED <<postVars, getVars, pageVars, now>>

\* app.put('/availability/exceptions/:id')
PutException(user, id, b) ==
  /\ Served
  /\ LET rows == {a \in availability_exceptions : a.id = id /\ a.user_id = user}
     IN IF rows = {}
        THEN /\ availRes' = 404
             /\ UNCHANGED <<availability_exceptions, emitted, inbox>>
        ELSE IF ~ ExceptionNotNull(b)
             THEN /\ availRes' = 500
                  /\ UNCHANGED <<availability_exceptions, emitted, inbox>>
             ELSE LET row == ExceptionRow(id, user, b)
                  IN /\ availability_exceptions' = (availability_exceptions \ rows) \cup {row}
                     /\ emitted' = emitted (+) SetToBag({AvailabilityEvent(user, "exception", row)})
                     /\ inbox' = Broadcast(AvailabilityEvent(user, "exception", row))
                     /\ availRes' = 200
  /\ UNCHANGED <<availability_recurring, meeting_types, appointments, puts, putRes>>
  /\ UNCHANGED <<connected, lockMsgs, locks, formPc, selectedSlot, isSlotLocked, lockError, isSubmitting, store>>
  /\ UNCHANGED <<postVars, getVars, pageVars, now>>

\* app.delete('/availability/exceptions/:id'): 204, nothing is emitted
DeleteException(user, id) ==
  /\ Served
  /\ availability_exceptions' =
       { a \in availability_exceptions : ~ (a.id = id /\ a.user_id = user) }
  /\ availRes' = 204
  /\ UNCHANGED <<availability_recurring, meeting_types, appointments, puts, putRes>>
  /\ UNCHANGED <<postVars, emitted, sockVars, getVars, pageVars, now>>

\* ------------------------------------------------ meeting type endpoints
\* a missing duration
NoDuration == 0 - 1

\* req.body of POST and PUT /meeting-types: 45 minutes, and a body without
\* duration
MeetingTypeInputs == { [duration |-> 45], [duration |-> NoDuration] }

\* duration INTEGER NOT NULL
MeetingTypeNotNull(b) == b.duration # NoDuration

\* FOREIGN KEY (meeting_type_id) REFERENCES meeting_types(id): the types that
\* appointments name; seed rows appt2 and appt3 name mt2 and mt3
ReferencedTypes == {a.meeting_type_id : a \in appointments} \cup {"mt2", "mt3"}

\* app.post('/meeting-types')
PostMeetingType(user, b) ==
  /\ Served
  /\ IF ~ MeetingTypeNotNull(b)
     THEN /\ availRes' = 500
          /\ UNCHANGED meeting_types
     ELSE /\ meeting_types' = meeting_types \cup
               {[id |-> "uuid" \o ToString(changes + 1), user_id |-> user,
                 duration |-> b.duration]}
          /\ availRes' = 201
  /\ UNCHANGED <<availability_recurring, availability_exceptions, appointments, puts, putRes>>
  /\ UNCHANGED <<postVars, emitted, sockVars, getVars, pageVars, now>>

\* PutMeetingType matching the row by id alone
PutMeetingType_AnyOwner(user, id, b) ==
  /\ Served
  /\ LET rows == {m \in meeting_types : m.id = id}
     IN IF rows = {}
        THEN /\ availRes' = 404
             /\ UNCHANGED meeting_types
        ELSE IF ~ MeetingTypeNotNull(b)
             THEN /\ availRes' = 500
                  /\ UNCHANGED meeting_types
             ELSE /\ meeting_types' =
                       (meeting_types \ rows) \cup {[m EXCEPT !.duration = b.duration] : m \in rows}
                  /\ availRes' = 200
  /\ UNCHANGED <<availability_recurring, availability_exceptions, appointments, puts, putRes>>
  /\ UNCHANGED <<postVars, emitted, sockVars, getVars, pageVars, now>>

\* app.put('/meeting-types/:id')
PutMeetingType(user, id, b) ==
  /\ Served
  /\ LET rows == {m \in meeting_types : m.id = id /\ m.user_id = user}
     IN IF rows = {}
        THEN /\ availRes' = 404
             /\ UNCHANGED meeting_types
        ELSE IF ~ MeetingTypeNotNull(b)
             THEN /\ availRes' = 500
                  /\ UNCHANGED meeting_types
             ELSE /\ meeting_types' =
                       (meeting_types \ rows) \cup {[m EXCEPT !.duration = b.duration] : m \in rows}
                  /\ availRes' = 200
  /\ UNCHANGED <<availability_recurring, availability_exceptions, appointments, puts, putRes>>
  /\ UNCHANGED <<postVars, emitted, sockVars, getVars, pageVars, now>>

\* app.delete('/meeting-types/:id'): 204 whether or not a row matched; 500
\* when an appointment names the row
DeleteMeetingType(user, id) ==
  /\ Served
  /\ LET rows == {m \in meeting_types : m.id = id /\ m.user_id = user}
     IN IF rows # {} /\ id \in ReferencedTypes
        THEN /\ availRes' = 500
             /\ UNCHANGED meeting_types
        ELSE /\ meeting_types' = meeting_types \ rows
             /\ availRes' = 204
  /\ UNCHANGED <<availability_recurring, availability_exceptions, appointments, puts, putRes>>
  /\ UNCHANGED <<postVars, emitted, sockVars, getVars, pageVars, now>>

\* ------------------------------------------------ realtime channel
\* main.tsx: const socket = io(...)
StoreConnect ==
  /\ "store" \notin connected
  /\ connected' = connected \cup {"store"}
  /\ UNCHANGED <<lockMsgs, locks, inbox, formPc, selectedSlot, isSlotLocked, lockError, isSubmitting, store>>
  /\ UNCHANGED <<dbVars, postVars, emitted, getVars, pageVars, now>>

\* UV_BookingForm useEffect: connect and emit lock_slot for the selection
FormMount(c, sel) ==
  /\ formPc[c] = "unmounted"
  /\ selectedSlot' = [selectedSlot EXCEPT ![c] = sel]
  /\ connected' = connected \cup {c}
  /\ lockMsgs' = lockMsgs \cup {[from |-> c, data |-> sel]}
  /\ formPc' = [formPc EXCEPT ![c] = "waiting"]
  /\ UNCHANGED <<locks, inbox, isSlotLocked, lockError, isSubmitting, store>>
  /\ UNCHANGED <<dbVars, postVars, emitted, getVars, pageVars, now>>

\* the payload { ...data, lock_expires_at }
LockedEvent(from, data, t) ==
  Event("slot_locked", from, NoId, data.organizer_id, data.slot_start,
        data.slot_end, "none", t + LockTTL)

\* LockSlot answering only while no grant at all is within its 30 seconds
LockSlot_OneAtATime(m) ==
  /\ m \in lockMsgs
  /\ locks < MaxLocks
  /\ locks' = locks + 1
  /\ lockMsgs' = lockMsgs \ {m}
  /\ IF \E e \in BagToSet(emitted) : e.event = "slot_locked" /\ now < e.lock_expires_at
     THEN UNCHANGED <<emitted, inbox>>
     ELSE /\ emitted' = emitted (+) SetToBag({LockedEvent(m.from, m.data, now)})
          /\ inbox' = Broadcast(LockedEvent(m.from, m.data, now))
  /\ UNCHANGED <<connected, formPc, selectedSlot, isSlotLocked, lockError, isSubmitting, store>>
  /\ UNCHANGED <<dbVars, postVars, getVars, pageVars, now>>

\* socket.on("lock_slot"): io.emit("slot_locked", payload)
LockSlot(m) ==
  /\ m \in lockMsgs
  /\ locks < MaxLocks
  /\ locks' = locks + 1
  /\ lockMsgs' = lockMsgs \ {m}
  /\ emitted' = emitted (+) SetToBag({LockedEvent(m.from, m.data, now)})
  /\ inbox' = Broadcast(LockedEvent(m.from, m.data, now))
  /\ UNCHANGED <<connected, formPc, selectedSlot, isSlotLocked, lockError, isSubmitting, store>>
  /\ UNCHANGED <<dbVars, postVars, getVars, pageVars, now>>

\* FormOnSlotLocked comparing the slot and not the organizer
FormOnSlotLocked_AnyOrganizer(c) ==
  /\ formPc[c] = "waiting"
  /\ inbox[c] # <<>>
  /\ LET data == Head(inbox[c])
     IN isSlotLocked' = [isSlotLocked EXCEPT ![c] =
          IF /\ data.slot_start = selectedSlot[c].slot_start
             /\ data.slot_end = selectedSlot[c].slot_end
          THEN TRUE ELSE @]
  /\ connected' = connected \ {c}
  /\ inbox' = [inbox EXCEPT ![c] = <<>>]
  /\ formPc' = [formPc EXCEPT ![c] = "disconnected"]
  /\ UNCHANGED <<lockMsgs, locks, selectedSlot, lockError, isSubmitting, store>>
  /\ UNCHANGED <<dbVars, postVars, emitted, getVars, pageVars, now>>

\* UV_BookingForm socket.on("slot_locked"): compare, then socket.disconnect()
FormOnSlotLocked(c) ==
  /\ formPc[c] = "waiting"
  /\ inbox[c] # <<>>
  /\ LET data == Head(inbox[c])
     IN isSlotLocked' = [isSlotLocked EXCEPT ![c] =
          IF /\ data.slot_start = selectedSlot[c].slot_start
             /\ data.slot_end = selectedSlot[c].slot_end
             /\ data.organizer_id = selectedSlot[c].organizer_id
          THEN TRUE ELSE @]
  /\ connected' = connected \ {c}
  /\ inbox' = [inbox EXCEPT ![c] = <<>>]
  /\ formPc' = [formPc EXCEPT ![c] = "disconnected"]
  /\ UNCHANGED <<lockMsgs, locks, selectedSlot, lockError, isSubmitting, store>>
  /\ UNCHANGED <<dbVars, postVars, emitted, getVars, pageVars, now>>

\* const [meetingTypes] = useState([{ id: "mt_default", ... }]), pre-filled
\* as selectedMeetingType
DefaultMeetingType == "mt_default"

\* the payload of handleSubmit
Payload(c) ==
  [meeting_type_id |-> DefaultMeetingType,
   slot_start |-> selectedSlot[c].slot_start,
   slot_end |-> selectedSlot[c].slot_end,
   organizer_id |-> "none"]

\* UV_BookingForm handleSubmit, with fields that pass validateForm: up to
\* the fetch of POST /appointments as request r
FormSubmit(c, r) ==
  /\ formPc[c] \in {"waiting", "disconnected"}
  /\ isSubmitting[c] = 0
  /\ IF ~ isSlotLocked[c]
     THEN /\ lockError' = [lockError EXCEPT ![c] =
                             "Waiting for slot lock confirmation. Please wait."]
          /\ UNCHANGED <<isSubmitting, pc, body, tx>>
     ELSE /\ pc[r] = "idle"
          /\ \A q \in Requests : q < r => pc[q] # "idle"
          /\ isSubmitting' = [isSubmitting EXCEPT ![c] = r]
          /\ body' = [body EXCEPT ![r] = Payload(c)]
          /\ tx' = [tx EXCEPT ![r] = "open"]
          /\ pc' = [pc EXCEPT ![r] = "mtQuery"]
          /\ UNCHANGED lockError
  /\ UNCHANGED <<local, res, released>>
  /\ UNCHANGED <<connected, lockMsgs, locks, inbox, formPc, selectedSlot, isSlotLocked, store>>
  /\ UNCHANGED <<dbVars, emitted, getVars, pageVars, now>>

\* UV_BookingForm handleSubmit from the response on: navigate on 201, a
\* message otherwise; finally setIsSubmitting(false)
FormOnResponse(c) ==
  /\ isSubmitting[c] # 0
  /\ res[isSubmitting[c]] # 0
  /\ IF res[isSubmitting[c]] = 201
     THEN /\ formPc' = [formPc EXCEPT ![c] = "navigated"]
          /\ connected' = connected \ {c}
          /\ UNCHANGED lockError
     ELSE /\ lockError' = [lockError EXCEPT ![c] =
                 IF res[isSubmitting[c]] = 409
                 THEN "This time slot is already booked. Please try another slot."
                 ELSE "An error occurred while booking the appointment."]
          /\ UNCHANGED <<formPc, connected>>
  /\ isSubmitting' = [isSubmitting EXCEPT ![c] = 0]
  /\ UNCHANGED <<lockMsgs, locks, inbox, selectedSlot, isSlotLocked, store>>
  /\ UNCHANGED <<dbVars, postVars, emitted, getVars, pageVars, now>>

\* ------------------------------------------------ accounts
\* app.post('/auth/password-reset-request'): the row is inserted before the
\* mail is sent; sent is whether SendGrid accepted it
PasswordResetRequest(email, sent) ==
  /\ resets < MaxResets
  /\ resets' = resets + 1
  /\ LET rows == {u \in users : u.email = email}
     IN IF rows = {}
        THEN /\ authRes' = 400
             /\ UNCHANGED password_reset_requests
        ELSE LET user == CHOOSE u \in rows : TRUE
             IN /\ password_reset_requests' = password_reset_requests \cup
                     {[id |-> "uuid" \o ToString(resets + 1), user_id |-> user.id,
                       reset_token |-> "token" \o ToString(resets + 1),
                       expires_at |-> toISOString(now + MsPerHour)]}
                /\ authRes' = IF sent THEN 200 ELSE 500
  /\ UNCHANGED <<users, auth_state, logoutPc, dashVars>>
  /\ UNCHANGED <<dbVars, postVars, emitted, sockVars, getVars, now>>

\* PasswordReset without the comparison of expires_at
PasswordReset_IgnoresExpiry(reset_token, new_password) ==
  /\ LET rows == {q \in password_reset_requests : q.reset_token = reset_token}
     IN IF rows = {}
        THEN authRes' = 400 /\ UNCHANGED users
        ELSE LET reset_request == CHOOSE q \in rows : TRUE
             IN IF new_password = NoPassword
                THEN authRes' = 500 /\ UNCHANGED users
                ELSE /\ users' = { IF u.id = reset_request.user_id
                                   THEN [u EXCEPT !.password_hash = hash(new_password)]
                                   ELSE u : u \in users }
                     /\ authRes' = 200
  /\ UNCHANGED <<password_reset_requests, resets, auth_state, logoutPc, dashVars>>
  /\ UNCHANGED <<dbVars, postVars, emitted, sockVars, getVars, now>>

\* app.post('/auth/password-reset'): bcrypt.hash rejects an absent password
PasswordReset(reset_token, new_password) ==
  /\ LET rows == {q \in password_reset_requests : q.reset_token = reset_token}
     IN IF rows = {}
        THEN authRes' = 400 /\ UNCHANGED users
        ELSE LET reset_request == CHOOSE q \in rows : TRUE
             IN IF getTime(reset_request.expires_at) < now
                THEN authRes' = 400 /\ UNCHANGED users
                ELSE IF new_password = NoPassword
                     THEN authRes' = 500 /\ UNCHANGED users
                     ELSE /\ users' = { IF u.id = reset_request.user_id
                                        THEN [u EXCEPT !.password_hash = hash(new_password)]
                                        ELSE u : u \in users }
                          /\ authRes' = 200
  /\ UNCHANGED <<password_reset_requests, resets, auth_state, logoutPc, dashVars>>
  /\ UNCHANGED <<dbVars, postVars, emitted, sockVars, getVars, now>>

\* an hour passes
HourPasses ==
  /\ now < MaxTicks * MsPerHour
  /\ now' = now + MsPerHour
  /\ UNCHANGED <<dbVars, postVars, emitted, sockVars, getVars, pageVars>>

\* ------------------------------------------------ organizer dashboard
undefined == <<"undefined", 0>>

\* a column or property of the appointment id, and an absent one
Of(property, id) == <<property, id>>
Absent == Of("undefined", undefined)

\* a row of appointments as res.json sends it (of: the appointment an object
\* was made for, which no code reads)
RowJson(a) ==
  [of |-> a.id, id |-> a.id, appointment_id |-> undefined, slot_start |-> a.slot_start,
   slot_end |-> a.slot_end, status |-> a.status,
   cancellation_token |-> Of("cancellation_token", a.id),
   invitee |-> Absent, invitee_name |-> Of("name", a.id)]

\* the appointment_created payload: appointment_id, invitee, no id
CreatedJson(e) ==
  [of |-> e.id, id |-> undefined, appointment_id |-> e.id, slot_start |-> e.slot_start,
   slot_end |-> e.slot_end, status |-> e.status, cancellation_token |-> Absent,
   invitee |-> Of("invitee", e.id), invitee_name |-> Absent]

\* updated_fields of the appointment_updated payload
FieldsJson(e) ==
  [of |-> e.id, id |-> undefined, appointment_id |-> undefined, slot_start |-> e.slot_start,
   slot_end |-> e.slot_end, status |-> e.status, cancellation_token |-> Absent,
   invitee |-> Absent, invitee_name |-> Absent]

\* transformAppointment: an item with an invitee is returned as it is; of any
\* other, id, slot_start, slot_end, status and cancellation_token are copied
\* and invitee is built from invitee_name, invitee_email and invitee_phone
transformAppointment(item) ==
  IF item.invitee # Absent
  THEN item
  ELSE [of |-> item.of, id |-> item.id, appointment_id |-> undefined,
        slot_start |-> item.slot_start,
        slot_end |-> item.slot_end, status |-> item.status,
        cancellation_token |-> item.cancellation_token,
        invitee |-> Of("invitee", item.invitee_name[2]), invitee_name |-> Absent]

\* { ...app, ...t } for a t built by transformAppointment: its six keys
\* replace those of app, undefined values included
Spread(app, t) ==
  [app EXCEPT !.id = t.id, !.slot_start = t.slot_start, !.slot_end = t.slot_end,
              !.status = t.status, !.cancellation_token = t.cancellation_token,
              !.invitee = t.invitee]

\* the appointment_created effect
OnCreated(prevAppointments, created, userId) ==
  IF created # NoEvent /\ created.organizer_id = userId
  THEN IF \E i \in DOMAIN prevAppointments : prevAppointments[i].id = created.id
       THEN prevAppointments
       ELSE Append(prevAppointments, transformAppointment(CreatedJson(created)))
  ELSE prevAppointments

\* the appointment_updated effect
OnUpdated(prevAppointments, updated) ==
  IF updated # NoEvent
  THEN [i \in DOMAIN prevAppointments |->
          IF prevAppointments[i].id = updated.id
          THEN Spread(prevAppointments[i], transformAppointment(FieldsJson(updated)))
          ELSE prevAppointments[i]]
  ELSE prevAppointments

\* the first render of UV_OrganizerDashboard and its effects; the fetch is
\* sent when auth_state.is_authenticated
Mounted(auth) ==
  [mounted |-> TRUE,
   appointments |-> OnUpdated(OnCreated(<<>>, store.last_appointment_created, auth.user.id),
                              store.last_appointment_updated),
   filter |-> "upcoming"]

\* fetchAppointments: the request
Request(auth, filter) ==
  [n |-> fetchCount + 1, token |-> auth.auth_token, filter |-> filter,
   answered |-> FALSE, ok |-> FALSE, rows |-> <<>>]

\* navigate("/dashboard")
Enter(auth) ==
  /\ ~ dashboard.mounted
  /\ dashboard' = Mounted(auth)
  /\ IF auth.is_authenticated
     THEN /\ fetchCount < MaxFetches
          /\ fetchCount' = fetchCount + 1
          /\ fetches' = fetches \cup {Request(auth, "upcoming")}
     ELSE UNCHANGED <<fetches, fetchCount>>

\* the route changes: the component is unmounted and the responses still in
\* flight find no one
Leave ==
  /\ dashboard' = Unmounted
  /\ fetches' = {}
  /\ UNCHANGED fetchCount

\* UV_Login handleSubmit with app.post('/auth/login'): set_auth and
\* navigate("/dashboard") on 200
LoginSubmit(email, password) ==
  /\ ~ dashboard.mounted
  /\ LET rows == {u \in users : u.email = email}
     IN IF rows = {}
        THEN authRes' = 400 /\ UNCHANGED <<auth_state, dashVars>>
        ELSE LET user == CHOOSE u \in rows : TRUE
                 auth == [is_authenticated |-> TRUE, auth_token |-> sign(user),
                          user |-> [id |-> user.id, email |-> user.email]]
             IN IF ~ compare(password, user.password_hash)
                THEN authRes' = 400 /\ UNCHANGED <<auth_state, dashVars>>
                ELSE /\ authRes' = 200
                     /\ auth_state' = auth
                     /\ Enter(auth)
  /\ UNCHANGED <<users, password_reset_requests, resets, logoutPc>>
  /\ UNCHANGED <<dbVars, postVars, emitted, sockVars, getVars, now>>

\* GV_TopNav handleLogout: fetch POST /auth/logout
LogoutStart ==
  /\ auth_state.is_authenticated
  /\ logoutPc = "idle"
  /\ logoutPc' = "fetching"
  /\ UNCHANGED <<users, password_reset_requests, resets, authRes, auth_state, dashVars>>
  /\ UNCHANGED <<dbVars, postVars, emitted, sockVars, getVars, now>>

\* what the fetch of POST /auth/logout comes to: the handler's 200, a status
\* that is not ok, or no response at all
LogoutOutcomes == {"ok", "error", "network"}
LogoutStatus(outcome) == IF outcome = "ok" THEN 200 ELSE IF outcome = "error" THEN 500 ELSE 0

\* handleLogout clearing the state only when the response is ok
LogoutFinish_OnlyWhenOk(outcome) ==
  /\ logoutPc = "fetching"
  /\ logoutPc' = "idle"
  /\ auth_state' = IF outcome = "ok" THEN initialState ELSE auth_state
  /\ Leave
  /\ authRes' = LogoutStatus(outcome)
  /\ UNCHANGED <<users, password_reset_requests, resets>>
  /\ UNCHANGED <<dbVars, postVars, emitted, sockVars, getVars, now>>

\* handleLogout from the response on: the response is ok, is not ok, or the
\* fetch rejects; finally dispatch(clear_auth()) and navigate("/")
LogoutFinish(outcome) ==
  /\ logoutPc = "fetching"
  /\ logoutPc' = "idle"
  /\ auth_state' = initialState
  /\ Leave
  /\ authRes' = LogoutStatus(outcome)
  /\ UNCHANGED <<users, password_reset_requests, resets>>
  /\ UNCHANGED <<dbVars, postVars, emitted, sockVars, getVars, now>>

\* the organizer opens /dashboard
DashboardOpen ==
  /\ Enter(auth_state)
  /\ UNCHANGED authVars
  /\ UNCHANGED <<dbVars, postVars, emitted, sockVars, getVars, now>>

\* the user of the token: jwt.verify
verify(token) == { [id |-> u.id] : u \in {v \in users : sign(v) = token} }

\* the rows of a set in the order an index scan returns them
RECURSIVE InOrder(_)
InOrder(rows) ==
  IF rows = {} THEN <<>>
  ELSE LET first == CHOOSE a \in rows : \A b \in rows : a.id[2] <= b.id[2]
       IN <<first>> \o InOrder(rows \ {first})

\* app.get('/appointments'): SELECT * FROM appointments WHERE organizer_id = $1
\* [AND slot_start > $2], the comparison being one of TEXT
GetAppointments(f) ==
  /\ f \in fetches
  /\ ~ f.answered
  /\ LET user == verify(f.token)
         rows == { a \in appointments :
                     /\ \E u \in user : a.organizer_id = u.id
                     /\ f.filter = "upcoming" => ~ TextLeq(a.slot_start, toISOString(now)) }
     IN fetches' = (fetches \ {f}) \cup
          {[f EXCEPT !.answered = TRUE, !.ok = (user # {}),
                     !.rows = IF user = {} THEN <<>>
                              ELSE [i \in DOMAIN InOrder(rows) |-> RowJson(InOrder(rows)[i])]]}
  /\ UNCHANGED <<dashboard, fetchCount, authVars>>
  /\ UNCHANGED <<dbVars, postVars, emitted, sockVars, getVars, now>>

\* fetchAppointments from the response on: setAppointments(transformedData)
DashboardOnFetched(f) ==
  /\ f \in fetches
  /\ f.answered
  /\ fetches' = fetches \ {f}
  /\ dashboard' =
       IF f.ok
       THEN [dashboard EXCEPT !.appointments =
               [i \in DOMAIN f.rows |-> transformAppointment(f.rows[i])]]
       ELSE dashboard
  /\ UNCHANGED <<fetchCount, authVars>>
  /\ UNCHANGED <<dbVars, postVars, emitted, sockVars, getVars, now>>

\* setFilter: the fetch effect runs again
DashboardSetFilter(filter) ==
  /\ dashboard.mounted
  /\ filter # dashboard.filter
  /\ dashboard' = [dashboard EXCEPT !.filter = filter]
  /\ IF auth_state.is_authenticated
     THEN /\ fetchCount < MaxFetches
          /\ fetchCount' = fetchCount + 1
          /\ fetches' = fetches \cup {Request(auth_state, filter)}
     ELSE UNCHANGED <<fetches, fetchCount>>
  /\ UNCHANGED authVars
  /\ UNCHANGED <<dbVars, postVars, emitted, sockVars, getVars, now>>

\* the effects of UV_OrganizerDashboard that the dispatch of payload sets
\* off: they run in the render that follows the dispatch
Effects(payload) ==
  IF ~ dashboard.mounted
  THEN dashboard
  ELSE IF payload.event = "appointment_created"
       THEN [dashboard EXCEPT !.appointments = OnCreated(@, payload, auth_state.user.id)]
       ELSE IF payload.event = "appointment_updated"
            THEN [dashboard EXCEPT !.appointments = OnUpdated(@, payload)]
            ELSE dashboard

\* main.tsx socket.on(...): store.dispatch(set_last_...(payload)), and the
\* effects of a mounted dashboard on the new realtime_event_state
StoreOnEvent ==
  /\ inbox["store"] # <<>>
  /\ LET payload == Head(inbox["store"])
     IN /\ store' =
             IF payload.event = "slot_locked"
             THEN [store EXCEPT !.last_slot_locked = payload]
             ELSE IF payload.event = "appointment_created"
                  THEN [store EXCEPT !.last_appointment_created = payload]
                  ELSE IF payload.event = "appointment_updated"
                       THEN [store EXCEPT !.last_appointment_updated = payload]
                       ELSE [store EXCEPT !.last_availability_updated = payload]
        /\ dashboard' = Effects(payload)
  /\ inbox' = [inbox EXCEPT !["store"] = Tail(@)]
  /\ UNCHANGED <<connected, lockMsgs, locks, formPc, selectedSlot, isSlotLocked,
                 lockError, isSubmitting>>
  /\ UNCHANGED <<dbVars, postVars, emitted, getVars, authVars, fetches, fetchCount, now>>

Tick ==
  /\ now < MaxTicks * TickMs
  /\ now' = now + TickMs
  /\ UNCHANGED <<dbVars, postVars, emitted, sockVars, getVars, pageVars>>

NextBooking ==
  \/ \E r \in Requests : PostBegin(r)
  \/ \E r \in Requests : PostMtQuery(r)
  \/ \E r \in Requests : PostError(r)
  \/ \E r \in Requests : PostConflictQuery(r)
  \/ \E r \in Requests : PostInsert(r)
  \/ \E r \in Requests : PostCommit(r)
  \/ \E r \in Requests : PostEmit(r)
  \/ \E user \in Users, id \in {a.id : a \in appointments} \cup {NoId}, b \in PutInputs :
       PutAppointment(user, id, b.status, b.slot_start, b.slot_end)

\* the booking commit and slot resolution
NextValidation ==
  \/ \E r \in Requests : PostBegin(r)
  \/ \E r \in Requests : PostMtQuery(r)
  \/ \E r \in Requests : PostError(r)
  \/ \E r \in Requests : PostConflictQuery(r)
  \/ \E r \in Requests : PostInsert(r)
  \/ \E r \in Requests : PostCommit(r)
  \/ \E r \in Requests : PostEmit(r)
  \/ \E organizer \in OrganizerInputs : GetSlots(organizer)

NextLock ==
  \/ StoreConnect
  \/ \E c \in Forms, sel \in Selections : FormMount(c, sel)
  \/ \E m \in lockMsgs : LockSlot(m)
  \/ \E c \in Forms : FormOnSlotLocked(c)
  \/ StoreOnEvent
  \/ Tick

\* the booking forms: the lock, the submission and the booking commit
NextForm ==
  \/ \E c \in Forms, sel \in Selections : FormMount(c, sel)
  \/ \E m \in lockMsgs : LockSlot(m)
  \/ \E c \in Forms : FormOnSlotLocked(c)
  \/ \E c \in Forms, r \in Requests : FormSubmit(c, r)
  \/ \E r \in Requests : PostMtQuery(r)
  \/ \E r \in Requests : PostError(r)
  \/ \E c \in Forms : FormOnResponse(c)

SpecForm == Init /\ [][NextForm]_vars

\* the password reset endpoints and the clock
NextReset ==
  \/ \E email \in Emails, sent \in BOOLEAN : PasswordResetRequest(email, sent)
  \/ \E reset_token \in {q.reset_token : q \in password_reset_requests} \cup {"unknown"},
        new_password \in Passwords \cup {NoPassword} :
       PasswordReset(reset_token, new_password)
  \/ HourPasses

SpecReset == Init /\ [][NextReset]_vars

\* login and logout, of organizers who have set a password by a reset
NextAuth ==
  \/ \E email \in Emails \ {"nobody@simplecal.com"} : PasswordResetRequest(email, TRUE)
  \/ \E reset_token \in {q.reset_token : q \in password_reset_requests},
        new_password \in Passwords :
       PasswordReset(reset_token, new_password)
  \/ \E email \in Emails, password \in Passwords : LoginSubmit(email, password)
  \/ LogoutStart
  \/ \E outcome \in LogoutOutcomes : LogoutFinish(outcome)
  \/ DashboardOpen

SpecAuth == Init /\ [][NextAuth]_vars

\* the bodies of the bookings made while the dashboard is watched: a slot
\* of alice and one of bob
DashboardBodies ==
  { b \in BodyInputs :
      \/ b.meeting_type_id = "mt1" /\ b.slot_start = Ts(30 * MsPerMinute, "z")
      \/ b.meeting_type_id = "mt3" /\ b.slot_start = Ts(0, "iso") }

\* alice cancels or moves an appointment her dashboard lists
DashboardPuts == { b \in PutInputs : b.status # "booked" }

\* the dashboard of alice, who sets a password by a reset and logs in, with
\* bookings, one after another, and updates arriving
NextDashboard ==
  \/ PasswordResetRequest("alice@simplecal.com", TRUE)
  \/ \E reset_token \in {q.reset_token : q \in password_reset_requests} :
       PasswordReset(reset_token, "pw1")
  \/ LoginSubmit("alice@simplecal.com", "pw1")
  \/ StoreConnect
  \/ StoreOnEvent
  \/ \E r \in Requests, b \in DashboardBodies :
       (\A q \in Requests : pc[q] \in {"idle", "done"}) /\ Begin(r, b)
  \/ \E r \in Requests : PostMtQuery(r)
  \/ \E r \in Requests : PostConflictQuery(r)
  \/ \E r \in Requests : PostInsert(r)
  \/ \E r \in Requests : PostCommit(r)
  \/ \E r \in Requests : PostEmit(r)
  \/ \E i \in DOMAIN dashboard.appointments, b \in DashboardPuts :
       PutAppointment("user1", dashboard.appointments[i].id,
                      b.status, b.slot_start, b.slot_end)
  \/ \E f \in fetches : GetAppointments(f)
  \/ \E f \in fetches : DashboardOnFetched(f)
  \/ \E filter \in {"upcoming", "all"} : DashboardSetFilter(filter)

SpecDashboard == Init /\ [][NextDashboard]_vars

\* slot resolution, the booking of a returned slot, and the clock
NextResolve ==
  \/ \E organizer \in OrganizerInputs : GetSlots(organizer)
  \/ \E r \in Requests : BookSlot(r)
  \/ \E r \in Requests : PostMtQuery(r)
  \/ \E r \in Requests : PostError(r)
  \/ \E r \in Requests : PostConflictQuery(r)
  \/ \E r \in Requests : PostInsert(r)
  \/ \E r \in Requests : PostCommit(r)
  \/ \E r \in Requests : PostEmit(r)
  \/ Tick

\* the ids a request to /availability/.../:id can name
RecurringIds == {a.id : a \in availability_recurring} \cup {NoId}
ExceptionIds == {a.id : a \in availability_exceptions} \cup {NoId}

\* the availability endpoints, slot resolution, and the clock
NextAvailability ==
  \/ \E user \in Users, b \in RecurringInputs : PostRecurring(user, b)
  \/ \E user \in Users, id \in RecurringIds, b \in RecurringInputs :
       PutRecurring(user, id, b)
  \/ \E user \in Users, id \in RecurringIds : DeleteRecurring(user, id)
  \/ \E user \in Users, b \in ExceptionInputs : PostException(user, b)
  \/ \E user \in Users, id \in ExceptionIds, b \in ExceptionInputs :
       PutException(user, id, b)
  \/ \E user \in Users, id \in ExceptionIds : DeleteException(user, id)
  \/ \E organizer \in OrganizerInputs : GetSlots(organizer)
  \/ Tick

\* the booking commit and the organizer update alone
SpecBooking == Init /\ [][NextBooking]_vars

\* the booking commit and slot resolution alone
SpecValidation == Init /\ [][NextValidation]_vars

\* the realtime channel alone
SpecLock == Init /\ [][NextLock]_vars

\* the booking commit with the store's socket listening
NextNotify ==
  \/ \E r \in Requests : PostBegin(r)
  \/ \E r \in Requests : PostMtQuery(r)
  \/ \E r \in Requests : PostError(r)
  \/ \E r \in Requests : PostConflictQuery(r)
  \/ \E r \in Requests : PostInsert(r)
  \/ \E r \in Requests : PostCommit(r)
  \/ \E r \in Requests : PostEmit(r)
  \/ StoreConnect
  \/ StoreOnEvent

SpecNotify == Init /\ [][NextNotify]_vars

\* the booking commit alone, with bodies that name slot_end and organizer_id
NextCommit ==
  \/ \E r \in Requests : PostBegin(r)
  \/ \E r \in Requests : PostForged(r)
  \/ \E r \in Requests : PostMtQuery(r)
  \/ \E r \in Requests : PostError(r)
  \/ \E r \in Requests : PostConflictQuery(r)
  \/ \E r \in Requests : PostInsert(r)
  \/ \E r \in Requests : PostCommit(r)
  \/ \E r \in Requests : PostEmit(r)

SpecCommit == Init /\ [][NextCommit]_vars

\* slot resolution with bookings of the returned slots
SpecResolve == Init /\ [][NextResolve]_vars

\* the availability endpoints with slot resolution alone
SpecAvailability == Init /\ [][NextAvailability]_vars

\* the organizer endpoints that update and delete, and the creation of a
\* meeting type; the requests name rows that exist, and at most
\* MaxChanges + 1 of them are served
NextOrganizer ==
  \/ \E user \in Users, id \in {a.id : a \in appointments}, b \in PutInputs :
       /\ b.status # "booked"
       /\ puts + changes <= MaxChanges
       /\ PutAppointment(user, id, b.status, b.slot_start, b.slot_end)
  \/ \E user \in Users, id \in {a.id : a \in availability_recurring},
         b \in RecurringInputs :
       puts + changes <= MaxChanges /\ PutRecurring(user, id, b)
  \/ \E user \in Users, id \in {a.id : a \in availability_recurring} :
       puts + changes <= MaxChanges /\ DeleteRecurring(user, id)
  \/ \E user \in Users, id \in {a.id : a \in availability_exceptions},
         b \in ExceptionInputs :
       /\ b.exception_date # NoDate
       /\ puts + changes <= MaxChanges
       /\ PutException(user, id, b)
  \/ \E user \in Users, id \in {a.id : a \in availability_exceptions} :
       puts + changes <= MaxChanges /\ DeleteException(user, id)
  \/ \E user \in Users, b \in MeetingTypeInputs :
       puts + changes <= MaxChanges /\ PostMeetingType(user, b)
  \/ \E user \in Users, id \in {m.id : m \in meeting_types}, b \in MeetingTypeInputs :
       puts + changes <= MaxChanges /\ PutMeetingType(user, id, b)
  \/ \E user \in Users, id \in {m.id : m \in meeting_types} :
       puts + changes <= MaxChanges /\ DeleteMeetingType(user, id)

SpecOrganizer == Init /\ [][NextOrganizer]_vars

\* every operation of the program
Next ==
  \/ NextBooking \/ NextValidation \/ NextLock \/ NextResolve \/ NextAvailability
  \/ NextNotify \/ NextCommit \/ NextOrganizer \/ NextForm
  \/ NextReset \/ NextAuth \/ NextDashboard

Spec == Init /\ [][Next]_vars

\* ------------------------------------------------------------ properties
\* half-open interval intersection on instants: a.start < b.end, b.start < a.end
Overlaps(s1, e1, s2, e2) == s1 < e2 /\ s2 < e1

\* two rows occupy intersecting half-open intervals of one organizer
RowsOverlap(a, b) ==
  /\ a.organizer_id = b.organizer_id
  /\ Overlaps(getTime(a.slot_start), getTime(a.slot_end),
              getTime(b.slot_start), getTime(b.slot_end))

\* the booked appointments of the table that intersect row n
BookedOverlapping(n) ==
  { a \in appointments : a.status = "booked" /\ RowsOverlap(a, n) }

\* the request's transaction has reached COMMIT and has not responded yet
CommittedInFlight(r) == pc[r] = "emit"

\* the step in which request r leaves the statement it awaited
Leaves(r, stmt) == pc[r] = stmt /\ pc'[r] # stmt

\* the appointment_created payloads sent for request r
CreatedFor(r) ==
  { e \in BagToSet(emitted) : e.event = "appointment_created" /\ e.id = <<"uuid", r>> }

\* the rows of the table that request r inserted
RowsOf(r) == { a \in appointments : a.id = <<"uuid", r>> }

\* the slot_locked payloads sent
Grants == { e \in BagToSet(emitted) : e.event = "slot_locked" }

\* grant e is within its 30 seconds
Live(e) == now < e.lock_expires_at

\* two grants are for intersecting intervals of one organizer
GrantsOverlap(e, g) ==
  /\ e.organizer_id = g.organizer_id
  /\ Overlaps(getTime(e.slot_start), getTime(e.slot_end),
              getTime(g.slot_start), getTime(g.slot_end))

\* C1: of two booking commits for overlapping intervals of one organizer that
\* are in flight together, at most one commits.
C1_NoConcurrentDoubleCommit ==
  \A r1, r2 \in Requests :
    (r1 # r2 /\ CommittedInFlight(r1) /\ CommittedInFlight(r2))
      => ~ RowsOverlap(NewRow(r1), NewRow(r2))

\* C2: no two booked appointments of one organizer have overlapping half-open
\* intervals, after any sequence of bookings and organizer updates.
C2_BookedDisjoint ==
  \A a, b \in appointments :
    (a # b /\ a.status = "booked" /\ b.status = "booked") => ~ RowsOverlap(a, b)

\* C3: no two sessions hold live grants on overlapping intervals of one
\* organizer at the same instant.
C3_ClaimMutualExclusion ==
  \A e, g \in Grants :
    (e.by # g.by /\ Live(e) /\ Live(g)) => ~ GrantsOverlap(e, g)

\* a live grant for the organizer and interval that request r books
HasLiveClaim(r) ==
  \E e \in Grants :
    /\ Live(e)
    /\ \E u \in Users : username[u] = e.organizer_id /\ u = local[r].organizer_id
    /\ getTime(e.slot_start) = getTime(body[r].slot_start)
    /\ getTime(e.slot_end) = getTime(local[r].slot_end)

\* C4: a booking commit inserts an appointment only while a live claim for
\* its organizer and interval exists.
C4_CommitNeedsLiveClaim ==
  [][\A r \in Requests :
       (Leaves(r, "commit") /\ tx'[r] = "committed") => HasLiveClaim(r)]_vars

\* C5: the conflict check answers 409 exactly when the requested interval
\* intersects a booked appointment of the same organizer (half-open).
C5_ConflictIffOverlap ==
  [][\A r \in Requests :
       (Leaves(r, "conflictQuery") /\ res'[r] # 500) =>
         ((res'[r] = 409) <=> (BookedOverlapping(NewRow(r)) # {}))]_vars

C7_CreatedEventAfterCommit ==
  /\ [](\A r \in Requests :
          /\ res[r] = 201 =>
               /\ tx[r] = "committed"
               /\ Cardinality(RowsOf(r)) = 1
               /\ CopiesIn(CreatedEvent(NewRow(r)), emitted) = 1
          /\ CreatedFor(r) \subseteq {CreatedEvent(NewRow(r))}
          /\ CreatedFor(r) # {} => (tx[r] = "committed" /\ res[r] = 201)
          /\ tx[r] # "committed" => RowsOf(r) = {})
  /\ [][\A r \in Requests :
          /\ (Leaves(r, "commit") /\ res'[r] # 500) =>
               /\ appointments' \ appointments = {NewRow(r)}
               /\ appointments \subseteq appointments'
               /\ NewRow(r).status = "booked"
               /\ emitted' = emitted
          /\ Leaves(r, "emit") =>
               \A c \in connected :
                 Listens(c, "appointment_created")
                   => inbox'[c] = Append(inbox[c], CreatedEvent(NewRow(r)))]_vars

C7_Witness ==
  \E r \in Requests :
    /\ res[r] = 201
    /\ "store" \in connected
    /\ store.last_appointment_created = CreatedEvent(NewRow(r))

\* C8: an unknown meeting type (POST /appointments) is answered 400 at once
\* with the transaction rolled back, no row and no event; a missing or
\* unknown organizer (GET /slots) is answered 400 or 404 with no slots, and
\* the request changes nothing else.
C8_ValidationNoSideEffects ==
  /\ [][\A r \in Requests :
          (Leaves(r, "mtQuery") /\ res'[r] # 500
             /\ body[r].meeting_type_id \notin {m.id : m \in meeting_types})
            => /\ res'[r] = 400
               /\ pc'[r] = "done"
               /\ tx'[r] = "rolledback"
               /\ released'[r] = 1
               /\ appointments' = appointments
               /\ emitted' = emitted
               /\ inbox' = inbox]_vars
  /\ [][slotsRes' # slotsRes
          => UNCHANGED <<dbVars, postVars, emitted, sockVars>>]_vars
  /\ [](/\ \A r \in Requests :
             res[r] = 400 => (RowsOf(r) = {} /\ CreatedFor(r) = {} /\ tx[r] = "rolledback")
        /\ (slotsRes.status # 0 /\ slotsRes.organizer \notin {username[u] : u \in Users})
             => (slotsRes.status \in {400, 404} /\ slotsRes.slots = <<>>))

C8_Witness ==
  /\ \E r \in Requests : res[r] = 400 /\ body[r].meeting_type_id = "mt_unknown"
  /\ slotsRes.status = 404
  /\ slotsRes.organizer = "nobody"

\* C9: a slot_locked grant is delivered only to the socket that sent the
\* lock request.
C9_GrantOnlyToRequester ==
  \A c \in Clients :
    \A i \in 1 .. Len(inbox[c]) :
      inbox[c][i].event = "slot_locked" => inbox[c][i].by = c

\* C10: no grant is sent for an interval that overlaps a booked appointment
\* of that organizer.
C10_GrantOnlyIfAvailable ==
  [][\A m \in lockMsgs :
       (m \notin lockMsgs') =>
         (\A a \in appointments :
            (a.status = "booked" /\ username[a.organizer_id] = m.data.organizer_id)
              => ~ Overlaps(getTime(m.data.slot_start), getTime(m.data.slot_end),
                            getTime(a.slot_start), getTime(a.slot_end)))
         \/ LockedEvent(m.from, m.data, now) \notin BagToSet(emitted')]_vars

\* the step in which the server handles lock_slot message m
Handles(m) == m \in lockMsgs /\ m \notin lockMsgs'

\* handling m sent a grant for it
Granted(m) ==
  CopiesIn(LockedEvent(m.from, m.data, now), emitted')
    = CopiesIn(LockedEvent(m.from, m.data, now), emitted) + 1

\* the grants of other sessions for the organizer and interval of message m
HeldByOthers(m) ==
  { e \in Grants :
      /\ e.by # m.from
      /\ e.organizer_id = m.data.organizer_id
      /\ getTime(e.slot_start) = getTime(m.data.slot_start)
      /\ getTime(e.slot_end) = getTime(m.data.slot_end) }

\* C11: a claim lasts 30 seconds: a request of another session for the same
\* organizer and interval is granted once the 30 seconds have passed, and is
\* denied before that instant.
C11_ClaimExpiresAfterTTL ==
  [][\A m \in lockMsgs :
       Handles(m) => (Granted(m) <=> (\A e \in HeldByOthers(m) : ~ Live(e)))]_vars

\* the live grants of other sessions that intersect the interval of message m
LiveOverlapping(m) ==
  { e \in Grants :
      /\ e.by # m.from
      /\ Live(e)
      /\ e.organizer_id = m.data.organizer_id
      /\ Overlaps(getTime(e.slot_start), getTime(e.slot_end),
                  getTime(m.data.slot_start), getTime(m.data.slot_end)) }

\* C12: a lock request whose interval overlaps no live grant of the same
\* organizer is granted, with a 30 second expiry, whatever other live grants
\* exist for other organizers or disjoint intervals.
C12_UnrelatedClaimsGranted ==
  [][\A m \in lockMsgs :
       (Handles(m) /\ LiveOverlapping(m) = {}) =>
         /\ Granted(m)
         /\ LockedEvent(m.from, m.data, now).lock_expires_at = now + LockTTL]_vars

C12_Witness ==
  \E e, g \in Grants :
    /\ e.by # g.by
    /\ Live(e) /\ Live(g)
    /\ ~ GrantsOverlap(e, g)

\* C13: a booking form that sent lock_slot and has stopped listening has seen
\* its own slot confirmed as locked.  (The other outcome of the claim, a lock
\* error, needs a lock_failed event, which the server never sends.)
C13_LockRequestHasOutcome ==
  \A c \in Forms : formPc[c] = "disconnected" => isSlotLocked[c]

\* the step in which GET /slots sends a response
Answers == slotsRes' # slotsRes

\* the organizer's booked appointments that intersect a returned slot
BookedOver(organizer, slot) ==
  { a \in appointments :
      /\ a.status = "booked"
      /\ username[a.organizer_id] = organizer
      /\ Overlaps(getTime(slot.start_time), getTime(slot.end_time),
                  getTime(a.slot_start), getTime(a.slot_end)) }

\* C14: once a booking has committed, every later GET /slots for that
\* organizer reports each slot that overlaps it with available = false.
C14_BookedSlotsUnavailable ==
  [][(Answers /\ slotsRes'.status = 200) =>
       \A i \in DOMAIN slotsRes'.slots :
         BookedOver(slotsRes'.organizer, slotsRes'.slots[i]) # {}
           => ~ slotsRes'.slots[i].available]_vars

\* the weekday of Today (0 = Sunday): 2023-10-10 is a Tuesday
Weekday == 2

\* minutes from local midnight of Today to the instant 0 (10:00Z), in the
\* organizer's default_timezone: America/New_York, Europe/London
LocalOrigin == [u \in Users |-> IF u = "user1" THEN HHMM(6, 0) ELSE HHMM(11, 0)]

\* the instant of a local time of day of Today
Instant(u, minutes) == (minutes - LocalOrigin[u]) * MsPerMinute

\* the consecutive intervals of length d from s that end at or before e
RECURSIVE Tiles(_, _, _)
Tiles(s, e, d) ==
  IF s + d > e THEN <<>> ELSE <<[start |-> s, end |-> s + d]>> \o Tiles(s + d, e, d)

\* the tiles of window w: [s + bb + k*d, s + bb + (k+1)*d) up to e - ba
WindowTiles(u, w) ==
  Tiles(Instant(u, w.start_time + w.buffer_before),
        Instant(u, w.end_time - w.buffer_after),
        w.meeting_duration * MsPerMinute)

\* a returned slot list as intervals of instants
Intervals(slots) ==
  [i \in DOMAIN slots |-> [start |-> getTime(slots[i].start_time),
                           end |-> getTime(slots[i].end_time)]]

InWindow(x, s, e) == s <= x.start /\ x.end <= e

\* the intervals of a list that lie in [s, e]
Within(seq, s, e) == SelectSeq(seq, LAMBDA x : InWindow(x, s, e))

\* the organizer's exceptions for Today
ExceptionsToday(u) ==
  { x \in availability_exceptions : x.user_id = u /\ x.exception_date = Today }

\* C15: for a recurring window [s, e) of the day with buffers bb, ba and
\* duration d, the slots returned for that window are exactly the tiles
\* [s + bb + k*d, s + bb + (k+1)*d) that end at or before e - ba.
C15_WindowTiled ==
  [][(Answers /\ slotsRes'.status = 200) =>
       \A u \in Users : \A w \in availability_recurring :
         (/\ username[u] = slotsRes'.organizer
          /\ w.user_id = u
          /\ w.day_of_week = Weekday
          /\ ExceptionsToday(u) = {})
           => Within(Intervals(slotsRes'.slots),
                     Instant(u, w.start_time), Instant(u, w.end_time))
                = WindowTiles(u, w)]_vars

\* C16: on a date with an exception entry every returned slot of that date
\* lies in an override window of an exception; an exception with null start
\* and end leaves the date without slots.
C16_ExceptionOverridesRules ==
  [][(Answers /\ slotsRes'.status = 200) =>
       \A u \in Users :
         (username[u] = slotsRes'.organizer /\ ExceptionsToday(u) # {}) =>
           \A i \in DOMAIN slotsRes'.slots :
             InWindow(Intervals(slotsRes'.slots)[i],
                      Instant(u, 0), Instant(u, HHMM(24, 0)))
               => \E x \in ExceptionsToday(u) :
                    /\ x.start_time # NoTime
                    /\ x.end_time # NoTime
                    /\ InWindow(Intervals(slotsRes'.slots)[i],
                                Instant(u, x.start_time), Instant(u, x.end_time))]_vars

\* C17: two GET /slots calls for one organizer with no change of rules,
\* exceptions, appointments or grants between them return the same list,
\* whatever time passes between them.  (Where only bookings change state,
\* and they only add rows, the table equal to the seed at the second call
\* means nothing changed since the first.)
C17_ResolutionIdempotent ==
  [][(/\ slotsRes.status = 200
      /\ slotsRes'.status = 200
      /\ slotsRes'.organizer = slotsRes.organizer
      /\ appointments' = SeedAppointments)
       => slotsRes'.slots = slotsRes.slots]_vars

C19_SlotsOrderedDisjoint ==
  slotsRes.status = 200 =>
    \A i, j \in DOMAIN slotsRes.slots :
      i < j =>
        /\ getTime(slotsRes.slots[i].start_time) < getTime(slotsRes.slots[j].start_time)
        /\ ~ Overlaps(getTime(slotsRes.slots[i].start_time),
                      getTime(slotsRes.slots[i].end_time),
                      getTime(slotsRes.slots[j].start_time),
                      getTime(slotsRes.slots[j].end_time))

C19_Witness ==
  /\ slotsRes.status = 200
  /\ Len(slotsRes.slots) > 1
  /\ getTime(slotsRes.slots[1].start_time) > 3600000

\* the step in which an availability endpoint serves a request
Requested == changes' = changes + 1

\* the served request created, updated or deleted a rule or an exception
TookEffect ==
  \/ availRes' \in {200, 201}
  \/ availability_recurring' # availability_recurring
  \/ availability_exceptions' # availability_exceptions

\* the availability_updated payloads the step sent
SentAvailability ==
  { e \in BagToSet(emitted') :
      e.event = "availability_updated" /\ CopiesIn(e, emitted') > CopiesIn(e, emitted) }

\* C20: every create, update or delete of a recurring rule or an exception
\* that took effect sends availability_updated, and a request that did not
\* take effect sends none.
C20_AvailabilityChangeEmits ==
  [][Requested => (TookEffect <=> SentAvailability # {})]_vars

TypeOf(a) == CHOOSE m \in meeting_types : m.id = a.meeting_type_id

\* the appointments that POST /appointments created
Created == { a \in appointments : a.id[1] = "uuid" }

SentUpdated ==
  { e \in BagToSet(emitted') :
      e.event = "appointment_updated" /\ CopiesIn(e, emitted') > CopiesIn(e, emitted) }

\* the rows a PUT /appointments/:id by user for id matches
Matched(user, id) == { a \in appointments : a.id = id /\ a.organizer_id = user }

OthersRows(user) ==
  << { a \in appointments : a.organizer_id # user },
     { a \in availability_recurring : a.user_id # user },
     { a \in availability_exceptions : a.user_id # user },
     { m \in meeting_types : m.user_id # user } >>

\* the step changes no table and sends nothing
NoEffect ==
  /\ UNCHANGED <<appointments, availability_recurring, availability_exceptions,
                 meeting_types>>
  /\ emitted' = emitted
  /\ \A c \in Clients : inbox'[c] = inbox[c]

\* an update or delete request of user for row id of table T
OwnedByOther(T, id, user, owner(_)) == \E a \in T : a.id = id /\ owner(a) # user

\* a request of user leaves the rows of the others as they were, and changes
\* nothing when it names a row of another organizer
Isolated(user, foreign) ==
  /\ OthersRows(user)' = OthersRows(user)
  /\ foreign => NoEffect

\* C25: an organizer's update or delete request never changes a row owned by
\* a different organizer; a request that names another organizer's row
\* leaves every table unchanged and broadcasts nothing.
C25_OwnershipIsolation ==
  [][\A user \in Users :
       /\ \A id \in {a.id : a \in appointments}, b \in PutInputs :
            PutAppointment(user, id, b.status, b.slot_start, b.slot_end)
              => Isolated(user, OwnedByOther(appointments, id, user,
                                             LAMBDA a : a.organizer_id))
       /\ \A id \in {a.id : a \in availability_recurring} :
            /\ \A b \in RecurringInputs :
                 PutRecurring(user, id, b)
                   => Isolated(user, OwnedByOther(availability_recurring, id, user,
                                                  LAMBDA a : a.user_id))
            /\ DeleteRecurring(user, id)
                 => Isolated(user, OwnedByOther(availability_recurring, id, user,
                                                LAMBDA a : a.user_id))
       /\ \A id \in {a.id : a \in availability_exceptions} :
            /\ \A b \in ExceptionInputs :
                 PutException(user, id, b)
                   => Isolated(user, OwnedByOther(availability_exceptions, id, user,
                                                  LAMBDA a : a.user_id))
            /\ DeleteException(user, id)
                 => Isolated(user, OwnedByOther(availability_exceptions, id, user,
                                                LAMBDA a : a.user_id))
       /\ \A id \in {m.id : m \in meeting_types} :
            /\ \A b \in MeetingTypeInputs :
                 PutMeetingType(user, id, b)
                   => Isolated(user, OwnedByOther(meeting_types, id, user,
                                                  LAMBDA a : a.user_id))
            /\ DeleteMeetingType(user, id)
                 => Isolated(user, OwnedByOther(meeting_types, id, user,
                                                LAMBDA a : a.user_id))]_vars

\* a request that named a row of another organizer was answered, and the
\* owners have changed rows of their own
C25_Witness ==
  /\ putRes = 404
  /\ availRes = 404
  /\ changes > 1
  /\ availability_recurring # SeedRecurring

\* the slot_locked payload the form is about to handle
Received(c) == Head(inbox[c])

\* the payload names the form's organizer and slot
Confirms(data, c) ==
  /\ data.event = "slot_locked"
  /\ data.organizer_id = selectedSlot[c].organizer_id
  /\ data.slot_start = selectedSlot[c].slot_start
  /\ data.slot_end = selectedSlot[c].slot_end

\* C26: a booking form sends a booking request only after it received a
\* slot_locked event whose organizer, slot_start and slot_end all equal its
\* selection: the locked flag is set only by the receipt of such an event, a
\* slot_locked for another slot or organizer leaves the flag as it was, and
\* handleSubmit posts only while the flag is set.
C26_SubmitOnlyWhenLocked ==
  [][\A c \in Forms :
       /\ (isSlotLocked'[c] /\ ~ isSlotLocked[c])
            => (inbox[c] # <<>> /\ Confirms(Received(c), c))
       /\ (FormOnSlotLocked(c) /\ ~ Confirms(Received(c), c))
            => isSlotLocked'[c] = isSlotLocked[c]
       /\ (isSlotLocked[c] \/ isSlotLocked'[c])
            => \E e \in BagToSet(emitted) : Confirms(e, c)
       /\ \A r \in Requests :
            (FormSubmit(c, r) /\ body'[r] # body[r])
              => (isSlotLocked[c] /\ body'[r].slot_start = selectedSlot[c].slot_start)
       /\ selectedSlot[c] # NoSelection => selectedSlot'[c] = selectedSlot[c]]_vars

\* one form has posted its slot, and another has handled a slot_locked for a
\* different selection and stays unlocked
C26_Witness ==
  \E c, d \in Forms :
    /\ isSlotLocked[c]
    /\ \E r \in Requests : body[r] = Payload(c)
    /\ formPc[d] = "disconnected"
    /\ ~ isSlotLocked[d]
    /\ lockError[d] # ""

\* C29: when handleLogout completes, is_authenticated is false, auth_token is
\* empty and user is empty, whether POST /auth/logout answered ok, answered
\* with an error, or the fetch failed.
C29_LogoutClearsAuth ==
  [][/\ (logoutPc = "fetching" /\ logoutPc' = "idle") =>
          /\ ~ auth_state'.is_authenticated
          /\ auth_state'.auth_token = ""
          /\ auth_state'.user = NoUser
     /\ \A outcome \in LogoutOutcomes :
          LogoutFinish(outcome) => auth_state' = initialState]_vars

\* someone had logged in, and a logout whose fetch failed has completed
C29_Witness ==
  /\ fetchCount > 0
  /\ authRes = 0
  /\ logoutPc = "idle"
  /\ auth_state = initialState

\* the reset requests of a token that are not expired
Unexpired(reset_token) ==
  { q \in password_reset_requests :
      q.reset_token = reset_token /\ getTime(q.expires_at) >= now }

Handled(event) ==
  /\ StoreOnEvent
  /\ dashboard.mounted
  /\ Head(inbox["store"]).event = event

\* C27: on appointment_updated the dashboard changes, of the entry whose id
\* is the event's appointment_id, only status, slot_start and slot_end, to the
\* values of the event; the entry keeps its id, invitee and cancellation
\* token, and every other entry stays as it was.
C27_UpdateKeepsIdentity ==
  [][Handled("appointment_updated") =>
       LET updated == Head(inbox["store"])
           old == dashboard.appointments
           new == dashboard'.appointments
       IN /\ Len(new) = Len(old)
          /\ \A i \in DOMAIN old :
               new[i] = IF old[i].id = updated.id
                        THEN [old[i] EXCEPT !.status = updated.status,
                                            !.slot_start = updated.slot_start,
                                            !.slot_end = updated.slot_end]
                        ELSE old[i]]_vars

\* the list holds two entries made for one appointment
Twice(list) == \E i, j \in DOMAIN list : i < j /\ list[i].of = list[j].of

\* C28: the dashboard's list never holds two entries for one appointment,
\* however fetches and appointment_created events interleave; an
\* appointment_created of another organizer than the user logged in adds no
\* entry.
C28_NoDuplicateEntries ==
  [][/\ ~ Twice(dashboard'.appointments)
     /\ (/\ Handled("appointment_created")
         /\ Head(inbox["store"]).organizer_id # auth_state.user.id)
          => dashboard'.appointments = dashboard.appointments]_vars

====
